---- MODULE Spec2Model ----
(***************************************************************************)
(* Prompt-Builder: the composition and synchronisation engine.             *)
(*                                                                         *)
(* State: the library tree (treeData, nested folders and components), the  *)
(* ordered sections of the active prompt, the drag-and-drop transfer       *)
(* (payload and the global is-dragging flag) and the last "node-dropped"   *)
(* signal.  Each event handler of the Section and TreeNode components is   *)
(* one action.  The Section component's useEffect (LinkSync) is the action *)
(* LinkSync; React flushes pending effects before it handles the next      *)
(* event, so the event actions wait for syncPending to be cleared.         *)
(***************************************************************************)
EXTENDS Integers, Sequences, FiniteSets, TLC

VARIABLES treeData, sections, nextId, drag, isDragging, nodeDropped,
          syncPending, last, ops

\* the variable engine: the arguments and the results of its functions
VARIABLES text, mapping, extracted, replaced, vePc

\* the action bar: its props, the stored variables and the clipboard sink
VARIABLES systemPrompt, markdownEnabled, promptVariables, compiled, clipboard

\* the persistence route: the prompts table and the last response
VARIABLES db, request, response

\* the variables pane: the sections and stored variables of the active prompt,
\* the component's state, its pending effect, and the names edited since the
\* last save or reset
VARIABLES paneSections, storedVariables, variableNames, variableValues,
          hasChanges, paneEffectPending, unsavedEdits, paneLast, paneOps

\* the clipboard hook: its status, the pending timeouts, the number of calls
\* suspended at their await, the value the last call returned
VARIABLES status, timers, awaiting, returned, copies

coreVars == <<treeData, sections, nextId, drag, isDragging, nodeDropped,
              syncPending, last, ops>>

veVars == <<text, mapping, extracted, replaced, vePc>>

copyVars == <<systemPrompt, markdownEnabled, promptVariables, compiled, clipboard>>

dbVars == <<db, request, response>>

paneVars == <<paneSections, storedVariables, variableNames, variableValues,
              hasChanges, paneEffectPending, unsavedEdits, paneLast, paneOps>>

clipVars == <<status, timers, awaiting, returned, copies>>

auxVars == <<paneVars, clipVars>>

vars == <<coreVars, veVars, copyVars, dbVars, auxVars>>

(***************************************************************************)
(* Bounds                                                                  *)
(***************************************************************************)
MaxSections == 4
MaxOps == 3

(***************************************************************************)
(* JavaScript values                                                       *)
(***************************************************************************)
Undefined == "undefined"
NULL == [type |-> "null"]
Truthy(v) == v # Undefined /\ v # ""

Contents == {"X", "Y", "Z"}
Names == {"A", "B"}
Types == {"instruction", "context"}

Merge(s, u) == [f \in DOMAIN s |-> IF f \in DOMAIN u THEN u[f] ELSE s[f]]

(***************************************************************************)
(* The library tree                                                        *)
(***************************************************************************)
Component(id, name, componentType, content) ==
    [id |-> id, type |-> "component", name |-> name,
     componentType |-> componentType, content |-> content]

Folder(id, name, children) ==
    [id |-> id, type |-> "folder", name |-> name, children |-> children,
     expanded |-> TRUE]

InitTree ==
    << Folder("F1", "A",
              << Component("c1", "A", "instruction", "X"),
                 Folder("F3", "B", << Component("c2", "B", "context", "Y") >>),
                 Component("c3", "A", "context", "X") >>),
       Folder("F2", "B", << >>) >>

NodeIds == {"F1", "F2", "F3", "c1", "c2", "c3"}

\* the lookup without the comparison of the ids: the first component found
RECURSIVE findComponentById_anyComponent(_, _)
findComponentById_anyComponent(tree, id) ==
    IF tree = << >> THEN NULL
    ELSE LET node == Head(tree)
             found == IF node.type = "folder"
                      THEN findComponentById_anyComponent(node.children, id)
                      ELSE NULL
         IN  IF node.type = "component" THEN node
             ELSE IF found # NULL THEN found
             ELSE findComponentById_anyComponent(Tail(tree), id)

RECURSIVE findComponentById(_, _)
findComponentById(tree, id) ==
    IF tree = << >> THEN NULL
    ELSE LET node == Head(tree)
             found == IF node.type = "folder"
                      THEN findComponentById(node.children, id)
                      ELSE NULL
         IN  IF node.id = id /\ node.type = "component" THEN node
             ELSE IF found # NULL THEN found
             ELSE findComponentById(Tail(tree), id)

RECURSIVE findNodeById(_, _)
findNodeById(tree, id) ==
    IF tree = << >> THEN NULL
    ELSE LET node == Head(tree)
             found == IF node.type = "folder"
                      THEN findNodeById(node.children, id)
                      ELSE NULL
         IN  IF node.id = id THEN node
             ELSE IF found # NULL THEN found
             ELSE findNodeById(Tail(tree), id)

RECURSIVE getAllComponentsFromFolder(_)
getAllComponentsFromFolder(node) ==
    LET RECURSIVE under(_)
        under(children) ==
            IF children = << >> THEN << >>
            ELSE LET child == Head(children)
                 IN  (IF child.type = "component" THEN << child >>
                      ELSE getAllComponentsFromFolder(child))
                     \o under(Tail(children))
    IN  IF node.type = "folder" THEN under(node.children) ELSE << >>

\* the removal that leaves the children of a removed folder in its place
RECURSIVE deleteNode_keepChildren(_, _)
deleteNode_keepChildren(tree, id) ==
    IF tree = << >> THEN << >>
    ELSE LET node == Head(tree)
             rest == deleteNode_keepChildren(Tail(tree), id)
         IN  IF node.id = id
             THEN (IF node.type = "folder" THEN node.children ELSE << >>) \o rest
             ELSE IF node.type = "folder"
                  THEN << [node EXCEPT !.children = deleteNode_keepChildren(@, id)] >>
                       \o rest
                  ELSE << node >> \o rest

RECURSIVE deleteNode(_, _)
deleteNode(tree, id) ==
    IF tree = << >> THEN << >>
    ELSE LET node == Head(tree)
             rest == deleteNode(Tail(tree), id)
         IN  IF node.id = id THEN rest
             ELSE IF node.type = "folder"
                  THEN << [node EXCEPT !.children = deleteNode(@, id)] >> \o rest
                  ELSE << node >> \o rest

RECURSIVE updateComponent(_, _, _)
updateComponent(tree, id, updates) ==
    IF tree = << >> THEN << >>
    ELSE LET node == Head(tree)
             rest == updateComponent(Tail(tree), id, updates)
         IN  IF node.type = "folder"
             THEN << [node EXCEPT !.children = updateComponent(@, id, updates)] >> \o rest
             ELSE IF node.id = id THEN << Merge(node, updates) >> \o rest
             ELSE << node >> \o rest

(***************************************************************************)
(* Sections of the active prompt                                           *)
(***************************************************************************)
NewSection(id, type, name, content, link, orig) ==
    [id |-> id, type |-> type, name |-> name, content |-> content,
     open |-> TRUE, linkedComponentId |-> link, originalContent |-> orig,
     dirty |-> FALSE]

InitSections ==
    << NewSection(1, "instruction", "A", "X", "c1", "X"),
       NewSection(2, "context", "B", "Z", Undefined, Undefined) >>

MapSection(secs, sectionId, f(_)) ==
    [i \in DOMAIN secs |-> IF secs[i].id = sectionId THEN f(secs[i]) ELSE secs[i]]

\* PromptStore.updateSection: merge the partial fields, mark dirty
updateSectionFields(s, updates) ==
    LET merged == Merge(s, updates)
    IN  IF /\ "content" \in DOMAIN updates
           /\ updates.content # s.content
           /\ Truthy(merged.linkedComponentId)
           /\ updates.content # merged.originalContent
        THEN [merged EXCEPT !.dirty = TRUE]
        ELSE merged

updateSection(secs, sectionId, updates) ==
    LET upd(s) == updateSectionFields(s, updates)
    IN  MapSection(secs, sectionId, upd)

\* PromptStore.updateSectionFromLinkedComponent (the LinkSync refresh)
updateSectionFromLinkedComponent(secs, sectionId, c) ==
    LET upd(s) == [s EXCEPT !.content = c.content, !.type = c.componentType,
                            !.name = c.name, !.originalContent = c.content,
                            !.dirty = FALSE]
    IN  MapSection(secs, sectionId, upd)

InsertAt(seq, k, e) ==
    LET at == IF k > Len(seq) THEN Len(seq) ELSE k
    IN  SubSeq(seq, 1, at) \o << e >> \o SubSeq(seq, at + 1, Len(seq))

\* PromptStore.addSectionFromComponent: atIndex counts from 0
addSectionFromComponent(secs, id, c, atIndex) ==
    InsertAt(secs, atIndex,
             NewSection(id, c.componentType, c.name, c.content, c.id, c.content))

\* usePrompts.saveSectionToComponentLibrary: the tree half of the write-back
saveToLibraryTree(tree, s) ==
    IF findComponentById(tree, s.linkedComponentId) = NULL THEN tree
    ELSE updateComponent(tree, s.linkedComponentId,
                         [content |-> s.content, name |-> s.name,
                          componentType |-> s.type])

\* usePrompts.saveSectionToComponentLibrary: the section half
saveToLibrarySections(secs, tree, s) ==
    IF findComponentById(tree, s.linkedComponentId) = NULL THEN secs
    ELSE LET upd(t) == [t EXCEPT !.originalContent = t.content, !.dirty = FALSE]
         IN  MapSection(secs, s.id, upd)

(***************************************************************************)
(* LinkSync: the useEffect of the Section component                        *)
(***************************************************************************)
\* the condition compared against the edited content instead of the snapshot
RefreshNeeded_againstContent(linkedComponent, section) ==
    /\ linkedComponent # NULL
    /\ \/ linkedComponent.content # section.content
       \/ linkedComponent.componentType # section.type
       \/ linkedComponent.name # section.name

\* the condition without the comparison of the names
RefreshNeeded_noName(linkedComponent, section) ==
    /\ linkedComponent # NULL
    /\ \/ linkedComponent.content # section.originalContent
       \/ linkedComponent.componentType # section.type

RefreshNeeded(linkedComponent, section) ==
    /\ linkedComponent # NULL
    /\ \/ linkedComponent.content # section.originalContent
       \/ linkedComponent.componentType # section.type
       \/ linkedComponent.name # section.name

\* the effect dropping a link that no longer resolves
SectionEffect_unlinkDangling(secs, tree, section) ==
    IF Truthy(section.linkedComponentId)
    THEN LET linkedComponent == findComponentById(tree, section.linkedComponentId)
         IN  IF linkedComponent = NULL
             THEN updateSection(secs, section.id,
                                [linkedComponentId |-> Undefined,
                                 originalContent |-> Undefined])
             ELSE IF RefreshNeeded(linkedComponent, section)
             THEN updateSectionFromLinkedComponent(secs, section.id, linkedComponent)
             ELSE secs
    ELSE secs

SectionEffect(secs, tree, section) ==
    IF Truthy(section.linkedComponentId)
    THEN LET linkedComponent == findComponentById(tree, section.linkedComponentId)
         IN  IF RefreshNeeded(linkedComponent, section)
             THEN updateSectionFromLinkedComponent(secs, section.id, linkedComponent)
             ELSE secs
    ELSE secs

\* every mounted Section runs its effect on the section it was rendered with
RECURSIVE RunEffects(_, _, _, _)
RunEffects(secs, tree, rendered, k) ==
    IF k > Len(rendered) THEN secs
    ELSE RunEffects(SectionEffect(secs, tree, rendered[k]), tree, rendered, k + 1)

LinkSyncPass(secs, tree) == RunEffects(secs, tree, secs, 1)

\* positions of the sections whose effect issues a refresh
Refreshed(secs, tree) ==
    {i \in DOMAIN secs :
        /\ Truthy(secs[i].linkedComponentId)
        /\ RefreshNeeded(findComponentById(tree, secs[i].linkedComponentId), secs[i])}

\* the dependency list of the effect
EffectDeps(secs, tree) ==
    << tree, [i \in DOMAIN secs |->
                << secs[i].id, secs[i].linkedComponentId,
                   secs[i].originalContent, secs[i].type, secs[i].name >>] >>

Rerender ==
    syncPending' = (syncPending \/ EffectDeps(sections', treeData') # EffectDeps(sections, treeData))

(***************************************************************************)
(* Transfer payloads                                                       *)
(***************************************************************************)
Get(r, f) == IF f \in DOMAIN r THEN r[f] ELSE Undefined
JSString(s) == [str |-> s]

componentPayload(node) == node

folderPayload(node, allComponents) ==
    [dragType |-> "folder", folderName |-> node.name, components |-> allComponents]

sectionPayload(section, index) ==
    [dragType |-> "existingSection", sectionId |-> section.id, promptId |-> "p1",
     sectionData |-> section, originalIndex |-> index]

CoreInit ==
    /\ treeData = InitTree
    /\ sections = InitSections
    /\ nextId = 3
    /\ drag = NULL
    /\ isDragging = FALSE
    /\ nodeDropped = NULL
    /\ syncPending = TRUE
    /\ last = [op |-> "init", sec |-> 0, node |-> ""]
    /\ ops = 0

VeInit ==
    /\ text = << >>
    /\ mapping = << >>
    /\ extracted = << >>
    /\ replaced = << >>
    /\ vePc = "input"

CopyInit ==
    /\ systemPrompt = << >>
    /\ markdownEnabled = FALSE
    /\ promptVariables = << >>
    /\ compiled = NULL
    /\ clipboard = NULL

DbInit ==
    /\ db = << >>
    /\ request = NULL
    /\ response = NULL

PaneInit ==
    /\ paneSections = << >>
    /\ storedVariables = << >>
    /\ variableNames = << >>
    /\ variableValues = << >>
    /\ hasChanges = FALSE
    /\ paneEffectPending = TRUE
    /\ unsavedEdits = {}
    /\ paneLast = "init"
    /\ paneOps = 0

ClipInit ==
    /\ status = "idle"
    /\ timers = 0
    /\ awaiting = 0
    /\ returned = NULL
    /\ copies = 0

AuxInit == PaneInit /\ ClipInit

Init == CoreInit /\ VeInit /\ CopyInit /\ DbInit /\ AuxInit

Idle == drag = NULL /\ ~syncPending /\ ops < MaxOps
Did(op, sec, node) ==
    /\ last' = [op |-> op, sec |-> sec, node |-> node]
    /\ UNCHANGED <<veVars, copyVars, dbVars, auxVars>>

(***************************************************************************)
(* Section: content edits, header edits                                    *)
(***************************************************************************)
\* the edit also advancing the snapshot
handleContentChange_withSnapshot(secs, section, value) ==
    updateSection(secs, section.id, [content |-> value, originalContent |-> value])

\* the edit also dropping the link of the section
handleContentChange_unlink(secs, section, value) ==
    updateSection(secs, section.id, [content |-> value, linkedComponentId |-> Undefined])

\* Section.handleContentChange
handleContentChange(secs, section, value) ==
    updateSection(secs, section.id, [content |-> value])

EditContent(i, value) ==
    /\ Idle
    /\ sections[i].open
    /\ value # sections[i].content
    /\ sections' = handleContentChange(sections, sections[i], value)
    /\ nodeDropped' = NULL
    /\ ops' = ops + 1
    /\ Did("edit", i, "")
    /\ UNCHANGED <<treeData, nextId, drag, isDragging>>
    /\ Rerender

\* SectionHeader: rename and retype go through updateSection
RenameSection(i, name) ==
    /\ Idle
    /\ name # sections[i].name
    /\ sections' = updateSection(sections, sections[i].id, [name |-> name])
    /\ nodeDropped' = NULL
    /\ ops' = ops + 1
    /\ Did("rename", i, "")
    /\ UNCHANGED <<treeData, nextId, drag, isDragging>>
    /\ Rerender

ChangeType(i, type) ==
    /\ Idle
    /\ type # sections[i].type
    /\ sections' = updateSection(sections, sections[i].id, [type |-> type])
    /\ nodeDropped' = NULL
    /\ ops' = ops + 1
    /\ Did("retype", i, "")
    /\ UNCHANGED <<treeData, nextId, drag, isDragging>>
    /\ Rerender

\* PromptStore.toggleSectionOpen
ToggleOpen(i) ==
    /\ Idle
    /\ sections' = [sections EXCEPT ![i].open = ~@]
    /\ nodeDropped' = NULL
    /\ ops' = ops + 1
    /\ Did("toggle", i, "")
    /\ UNCHANGED <<treeData, nextId, drag, isDragging>>
    /\ Rerender

\* the "Save to Library" button: shown on an open, linked, dirty section
SaveButtonShown(section) ==
    section.open /\ Truthy(section.linkedComponentId) /\ section.dirty

SaveToLibrary(i) ==
    /\ Idle
    /\ SaveButtonShown(sections[i])
    /\ treeData' = saveToLibraryTree(treeData, sections[i])
    /\ sections' = saveToLibrarySections(sections, treeData, sections[i])
    /\ nodeDropped' = NULL
    /\ ops' = ops + 1
    /\ Did("save", i, "")
    /\ UNCHANGED <<nextId, drag, isDragging>>
    /\ Rerender

LinkSync ==
    /\ syncPending
    /\ sections' = LinkSyncPass(sections, treeData)
    /\ syncPending' = (EffectDeps(sections', treeData) # EffectDeps(sections, treeData))
    /\ nodeDropped' = NULL
    /\ Did("linksync", Cardinality(Refreshed(sections, treeData)),
           IF last.op = "linksync" THEN "rerun"
           ELSE IF \E i \in Refreshed(sections, treeData) : sections[i].dirty
                THEN "overDirty" ELSE "")
    /\ UNCHANGED <<treeData, nextId, drag, isDragging, ops>>

(***************************************************************************)
(* TreeStore events                                                        *)
(***************************************************************************)
UpdateComponentContent(id, content) ==
    /\ Idle
    /\ findComponentById(treeData, id) # NULL
    /\ findComponentById(treeData, id).content # content
    /\ treeData' = updateComponent(treeData, id, [content |-> content])
    /\ nodeDropped' = NULL
    /\ ops' = ops + 1
    /\ Did("updateComponent", 0, id)
    /\ UNCHANGED <<sections, nextId, drag, isDragging>>
    /\ Rerender

\* TreeNodeComponent.confirmDelete -> handleDeleteNode
DeleteNode(id) ==
    /\ Idle
    /\ findNodeById(treeData, id) # NULL
    /\ treeData' = deleteNode(treeData, id)
    /\ nodeDropped' = NULL
    /\ ops' = ops + 1
    /\ Did("deleteNode", 0, id)
    /\ UNCHANGED <<sections, nextId, drag, isDragging>>
    /\ Rerender

(***************************************************************************)
(* Drag and drop                                                           *)
(***************************************************************************)
\* nodes of the tree, in rendering order
RECURSIVE AllNodes(_)
AllNodes(tree) ==
    IF tree = << >> THEN << >>
    ELSE LET node == Head(tree)
         IN  << node >>
             \o (IF node.type = "folder" THEN AllNodes(node.children) ELSE << >>)
             \o AllNodes(Tail(tree))

Range(seq) == {seq[i] : i \in DOMAIN seq}

\* the drag start without the check for an empty folder
treeDragPayload_noEmptyCheck(node) ==
    IF node.type = "component" THEN componentPayload(node)
    ELSE folderPayload(node, getAllComponentsFromFolder(node))

\* TreeNodeComponent.handleDragStart: the payload set on the transfer, or
\* NULL when the drag is refused
treeDragPayload(node) ==
    IF node.type = "component" THEN componentPayload(node)
    ELSE LET allComponents == getAllComponentsFromFolder(node)
         IN  IF Len(allComponents) = 0 THEN NULL
             ELSE folderPayload(node, allComponents)

TreeDragStart(node) ==
    /\ Idle
    /\ LET payload == treeDragPayload(node)
       IN  IF payload = NULL
           THEN UNCHANGED <<drag, isDragging>>
           ELSE /\ drag' = [source |-> node.id, data |-> payload, dropped |-> FALSE]
                /\ isDragging' = TRUE
    /\ nodeDropped' = NULL
    /\ ops' = ops + 1
    /\ Did("treeDragStart", 0, node.id)
    /\ UNCHANGED <<treeData, sections, nextId, syncPending>>

\* Section.handleSectionDragStart
SectionDragStart(i) ==
    /\ Idle
    /\ drag' = [source |-> "section", data |-> sectionPayload(sections[i], i - 1),
                dropped |-> FALSE]
    /\ isDragging' = TRUE
    /\ nodeDropped' = NULL
    /\ ops' = ops + 1
    /\ Did("sectionDragStart", i, "")
    /\ UNCHANGED <<treeData, sections, nextId, syncPending>>

\* the drag end leaving the class on the body
DragEnd_keepFlag ==
    /\ drag # NULL
    /\ drag' = NULL
    /\ isDragging' = isDragging
    /\ nodeDropped' = NULL
    /\ Did("dragEnd", 0, IF drag.dropped THEN "dropped" ELSE "cancelled")
    /\ UNCHANGED <<treeData, sections, nextId, syncPending, ops>>

\* TreeNodeComponent.handleDragEnd, Section.handleSectionDragEnd
DragEnd ==
    /\ drag # NULL
    /\ drag' = NULL
    /\ isDragging' = FALSE
    /\ nodeDropped' = NULL
    /\ Did("dragEnd", 0, IF drag.dropped THEN "dropped" ELSE "cancelled")
    /\ UNCHANGED <<treeData, sections, nextId, syncPending, ops>>

\* the forEach inserting every remaining component at index + 1
RECURSIVE addRemaining_sameIndex(_, _, _, _, _)
addRemaining_sameIndex(secs, rest, index, idx, id) ==
    IF rest = << >> THEN secs
    ELSE addRemaining_sameIndex(
             addSectionFromComponent(secs, id, Head(rest), index + 1),
             Tail(rest), index, idx + 1, id + 1)

\* the forEach over components.slice(1) of the folder branch
RECURSIVE addRemaining(_, _, _, _, _)
addRemaining(secs, rest, index, idx, id) ==
    IF rest = << >> THEN secs
    ELSE addRemaining(addSectionFromComponent(secs, id, Head(rest), index + 1 + idx),
                      Tail(rest), index, idx + 1, id + 1)

\* the string on the transfer and JSON.parse of it
JSONstringify(value) == [raw |-> "json", value |-> value]

JSONparse(data) ==
    IF data.raw = "json" THEN [threw |-> FALSE, value |-> data.value]
    ELSE [threw |-> TRUE, value |-> NULL]

Falsy(value) == value = NULL \/ value = JSString("")

\* the body of the try block of Section.handleDrop
handleDrop(secs, section, index, dragData, id) ==
    IF Falsy(dragData) THEN secs
    ELSE IF Get(dragData, "dragType") = "folder" /\ Get(dragData, "components") # Undefined
    THEN LET components == dragData.components
         IN  IF Len(components) = 0 THEN secs
             ELSE LET firstComponent == components[1]
                      first == updateSection(secs, section.id,
                                  [content |-> Get(firstComponent, "content"),
                                   type |-> IF Truthy(Get(firstComponent, "componentType"))
                                            THEN firstComponent.componentType
                                            ELSE "instruction",
                                   name |-> Get(firstComponent, "name"),
                                   linkedComponentId |-> Get(firstComponent, "id"),
                                   originalContent |-> Get(firstComponent, "content")])
                  IN  IF firstComponent = NULL THEN secs
                      ELSE addRemaining(first, Tail(components), index, 0, id)
    ELSE IF Get(dragData, "type") = "component" /\ Truthy(Get(dragData, "componentType"))
    THEN updateSection(secs, section.id,
                       [content |-> Get(dragData, "content"),
                        type |-> dragData.componentType,
                        name |-> Get(dragData, "name"),
                        linkedComponentId |-> Get(dragData, "id"),
                        originalContent |-> Get(dragData, "content")])
    ELSE secs

\* Section.handleDrop: getData, JSON.parse and the catch of the try block
handleDropEvent(secs, section, index, data, id) ==
    LET parsed == JSONparse(data)
    IN  IF parsed.threw THEN secs
        ELSE handleDrop(secs, section, index, parsed.value, id)

DropOnSection(i) ==
    /\ drag # NULL /\ ~drag.dropped
    /\ ~syncPending
    /\ sections[i].open
    /\ sections' = handleDropEvent(sections, sections[i], i - 1,
                                   JSONstringify(drag.data), nextId)
    /\ Len(sections') <= MaxSections
    /\ nextId' = nextId + (Len(sections') - Len(sections))
    /\ drag' = [drag EXCEPT !.dropped = TRUE]
    /\ nodeDropped' = NULL
    /\ Did("dropOnSection", i, "")
    /\ UNCHANGED <<treeData, isDragging, ops>>
    /\ Rerender

\* TreeNodeComponent.handleDrop: the "node-dropped" event it dispatches, or NULL
treeDropSignal(node, draggedData) ==
    IF node.type # "folder" THEN NULL
    ELSE LET parsedData == draggedData
             draggedNodeId == IF Truthy(Get(parsedData, "id"))
                              THEN JSString(parsedData.id)
                              ELSE parsedData
         IN  IF draggedNodeId = JSString(node.id) THEN NULL
             ELSE [draggedNodeId |-> draggedNodeId, targetNodeId |-> node.id]

DropOnTreeNode(node) ==
    /\ drag # NULL /\ ~drag.dropped
    /\ ~syncPending
    /\ nodeDropped' = treeDropSignal(node, drag.data)
    /\ drag' = [drag EXCEPT !.dropped = TRUE]
    /\ Did("dropOnTreeNode", 0, node.id)
    /\ UNCHANGED <<treeData, sections, nextId, isDragging, syncPending, ops>>

Next ==
    \/ \E i \in DOMAIN sections, value \in Contents : EditContent(i, value)
    \/ \E i \in DOMAIN sections, name \in Names : RenameSection(i, name)
    \/ \E i \in DOMAIN sections, type \in Types : ChangeType(i, type)
    \/ \E i \in DOMAIN sections : ToggleOpen(i)
    \/ \E i \in DOMAIN sections : SaveToLibrary(i)
    \/ LinkSync
    \/ \E id \in NodeIds, content \in Contents : UpdateComponentContent(id, content)
    \/ \E id \in NodeIds : DeleteNode(id)
    \/ \E node \in Range(AllNodes(treeData)) : TreeDragStart(node)
    \/ \E i \in DOMAIN sections : SectionDragStart(i)
    \/ \E i \in DOMAIN sections : DropOnSection(i)
    \/ \E node \in Range(AllNodes(treeData)) : DropOnTreeNode(node)
    \/ DragEnd

Spec == Init /\ [][Next]_vars

\* the user works on the sections only: the library tree is never modified
NextLocal ==
    \/ \E i \in DOMAIN sections, value \in Contents : EditContent(i, value)
    \/ \E i \in DOMAIN sections, name \in Names : RenameSection(i, name)
    \/ \E i \in DOMAIN sections, type \in Types : ChangeType(i, type)
    \/ \E i \in DOMAIN sections : ToggleOpen(i)
    \/ LinkSync

SpecLocal == Init /\ [][NextLocal]_vars

(***************************************************************************)
(* Drops whose transfer was not produced by this application               *)
(***************************************************************************)
Transfers ==
    { [raw |-> "empty"],
      [raw |-> "garbage"],
      JSONstringify(NULL),
      JSONstringify(JSString("c1")),
      JSONstringify([type |-> "component"]),
      JSONstringify([type |-> "component", componentType |-> "context"]),
      JSONstringify([dragType |-> "folder"]),
      JSONstringify([dragType |-> "folder", components |-> << >>]),
      JSONstringify([dragType |-> "folder", components |-> << NULL >>]),
      JSONstringify([dragType |-> "folder", components |-> << [name |-> "B"] >>]),
      JSONstringify(Component("c9", "B", "context", "Y")) }

\* Section.handleDrop on a transfer from outside
ExternalDrop(i, data) ==
    /\ Idle
    /\ sections[i].open
    /\ sections' = handleDropEvent(sections, sections[i], i - 1, data, nextId)
    /\ Len(sections') <= MaxSections
    /\ nextId' = nextId + (Len(sections') - Len(sections))
    /\ nodeDropped' = NULL
    /\ ops' = ops + 1
    /\ Did("externalDrop", i, "")
    /\ UNCHANGED <<treeData, drag, isDragging>>
    /\ Rerender

NextDrop ==
    \/ \E i \in DOMAIN sections, value \in Contents : EditContent(i, value)
    \/ \E i \in DOMAIN sections, data \in Transfers : ExternalDrop(i, data)
    \/ LinkSync

SpecDrop == Init /\ [][NextDrop]_vars

(***************************************************************************)
(* The variable engine.  A text is a sequence of characters.               *)
(***************************************************************************)
MaxPieces == 3

Pieces ==
    { << "{", "{", "a", "}", "}" >>,
      << "{", "{", "b", "}", "}" >>,
      << "{", "{", " ", "a", " ", "}", "}" >>,
      << "{", "{", ".", "}", "}" >>,
      << "{", "{" >>,
      << "}", "}" >>,
      << "{" >>,
      << "a" >>,
      << " " >> }

RECURSIVE Concat(_)
Concat(ps) == IF ps = << >> THEN << >> ELSE Head(ps) \o Concat(Tail(ps))

Texts ==
    { Concat(ps) : ps \in UNION { [1..n -> Pieces] : n \in 0..MaxPieces } }

IsWhitespace(c) == c \in {" ", "\n", "\t"}

\* String.prototype.trim
RECURSIVE TrimStart(_)
TrimStart(w) ==
    IF w # << >> /\ IsWhitespace(Head(w)) THEN TrimStart(Tail(w)) ELSE w

RECURSIVE TrimEnd(_)
TrimEnd(w) ==
    IF w # << >> /\ IsWhitespace(w[Len(w)])
    THEN TrimEnd(SubSeq(w, 1, Len(w) - 1)) ELSE w

Trim(w) == TrimEnd(TrimStart(w))

\* the first position at or after k that holds "}", or Len(t) + 1
RECURSIVE RunEnd(_, _)
RunEnd(t, k) ==
    IF k > Len(t) \/ t[k] = "}" THEN k ELSE RunEnd(t, k + 1)

\* /\{\{([^}]+)\}\}/ tried at position p
regexMatchAt(t, p) ==
    LET k == RunEnd(t, p + 2)
    IN  IF /\ p + 1 <= Len(t) /\ t[p] = "{" /\ t[p + 1] = "{"
           /\ k > p + 2
           /\ k + 1 <= Len(t) /\ t[k] = "}" /\ t[k + 1] = "}"
        THEN [found |-> TRUE, group |-> SubSeq(t, p + 2, k - 1), last |-> k + 1]
        ELSE [found |-> FALSE, group |-> << >>, last |-> p]

\* text.matchAll(regex): the captured groups, left to right
RECURSIVE matchAll(_, _)
matchAll(t, p) ==
    IF p > Len(t) THEN << >>
    ELSE LET m == regexMatchAt(t, p)
         IN  IF m.found THEN << m.group >> \o matchAll(t, m.last + 1)
             ELSE matchAll(t, p + 1)

Includes(seq, e) == \E i \in DOMAIN seq : seq[i] = e

\* the loop without the trim of the captured name
RECURSIVE collectVariables_noTrim(_, _)
collectVariables_noTrim(matches, variables) ==
    IF matches = << >> THEN variables
    ELSE LET variableName == Head(matches)
         IN  collectVariables_noTrim(Tail(matches),
                 IF variableName # << >> /\ ~Includes(variables, variableName)
                 THEN Append(variables, variableName)
                 ELSE variables)

\* the for loop of extractVariables
RECURSIVE collectVariables(_, _)
collectVariables(matches, variables) ==
    IF matches = << >> THEN variables
    ELSE LET variableName == Trim(Head(matches))
         IN  collectVariables(Tail(matches),
                 IF variableName # << >> /\ ~Includes(variables, variableName)
                 THEN Append(variables, variableName)
                 ELSE variables)

extractVariables(t) ==
    IF t = << >> THEN << >> ELSE collectVariables(matchAll(t, 1), << >>)

ExtractVariables ==
    /\ vePc = "input"
    /\ extracted' = extractVariables(text)
    /\ vePc' = "extracted"
    /\ UNCHANGED <<text, mapping, replaced, coreVars, copyVars, dbVars, auxVars>>

MaxEntries == 2

VariableNames == { << "a" >>, << "b" >>, << "." >> }

VariableValues == { << >>, << "V" >>, << "{", "{", "b", "}", "}" >> }

\* Record<string, string> in the order of Object.entries
Mappings ==
    { m \in UNION { [1..n -> [name : VariableNames, value : VariableValues]] :
                      n \in 0..MaxEntries } :
        \A i, j \in DOMAIN m : i # j => m[i].name # m[j].name }

\* new RegExp(`\{\{${variableName}\}\}`, 'g'): the atoms of the pattern;
\* a "." of the name is the wildcard of the regular expression
regexOfName(variableName) ==
    << [any |-> FALSE, ch |-> "{"], [any |-> FALSE, ch |-> "{"] >>
    \o [k \in DOMAIN variableName |->
           IF variableName[k] = "." THEN [any |-> TRUE, ch |-> "."]
           ELSE [any |-> FALSE, ch |-> variableName[k]]]
    \o << [any |-> FALSE, ch |-> "}"], [any |-> FALSE, ch |-> "}"] >>

atomMatches(atom, c) == IF atom.any THEN c # "\n" ELSE c = atom.ch

patternMatchesAt(t, p, pattern) ==
    /\ p + Len(pattern) - 1 <= Len(t)
    /\ \A k \in DOMAIN pattern : atomMatches(pattern[k], t[p + k - 1])

\* result.replace(regex, value) with the g flag
RECURSIVE replaceAll(_, _, _, _)
replaceAll(t, p, pattern, value) ==
    IF p > Len(t) THEN << >>
    ELSE IF patternMatchesAt(t, p, pattern)
    THEN value \o replaceAll(t, p + Len(pattern), pattern, value)
    ELSE << t[p] >> \o replaceAll(t, p + 1, pattern, value)

\* Object.entries(variables).forEach over the running result
RECURSIVE replaceVariables(_, _)
replaceVariables(t, variables) ==
    IF variables = << >> THEN t
    ELSE replaceVariables(
             replaceAll(t, 1, regexOfName(Head(variables).name), Head(variables).value),
             Tail(variables))

ReplaceVariables(variables) ==
    /\ vePc = "input"
    /\ mapping' = variables
    /\ replaced' = replaceVariables(text, variables)
    /\ vePc' = "replaced"
    /\ UNCHANGED <<text, extracted, coreVars, copyVars, dbVars, auxVars>>

InitVE ==
    /\ CoreInit /\ CopyInit /\ DbInit /\ AuxInit
    /\ text \in Texts
    /\ mapping = << >>
    /\ extracted = << >>
    /\ replaced = << >>
    /\ vePc = "input"

NextVE ==
    \/ ExtractVariables
    \/ \E variables \in Mappings : ReplaceVariables(variables)

SpecVE == InitVE /\ [][NextVE]_vars

(***************************************************************************)
(* The action bar: compiling the prompt and handing it to the clipboard.   *)
(* Section contents are texts here.                                        *)
(***************************************************************************)
MaxCopySections == 3

CopyContents ==
    { << >>,
      << " ", " " >>,
      << "B", "o", "d", "y" >>,
      << " ", "T" >>,
      << "{", "{", "a", "}", "}" >> }

CopySystemPrompts == { << >>, << "S" >> }

CopyVariables ==
    { << >>,
      << [name |-> << "a" >>, value |-> << "V" >>] >>,
      << [name |-> << "a" >>, value |-> << >>] >> }

CopySections ==
    UNION { [1..n -> { NewSection(0, "instruction", "A", c, Undefined, Undefined) :
                         c \in CopyContents }] : n \in 0..MaxCopySections }

\* .filter(content => content) : every non-empty content is kept
keepsContent_untrimmed(content) == content # << >>

\* .filter(content => content.trim())
keepsContent(content) == Trim(content) # << >>

\* Array.prototype.join
RECURSIVE join(_, _)
join(parts, separator) ==
    IF parts = << >> THEN << >>
    ELSE IF Len(parts) = 1 THEN Head(parts)
    ELSE Head(parts) \o separator \o join(Tail(parts), separator)

\* sections.map(section => section.content).filter(...).join('\n\n')
getCompiledPromptText(secs) ==
    join(SelectSeq([i \in DOMAIN secs |-> secs[i].content], keepsContent),
         << "\n", "\n" >>)

\* the text copyPrompt hands to the clipboard
copyPromptText(secs, variables, system, markdown) ==
    LET promptText == getCompiledPromptText(secs)
        substituted == IF Len(variables) > 0
                       THEN replaceVariables(promptText, variables)
                       ELSE promptText
    IN  IF markdown /\ system # << >>
        THEN system \o << "\\", "n", "\\", "n" >> \o substituted
        ELSE substituted

CopyPrompt ==
    /\ clipboard = NULL
    /\ compiled' = getCompiledPromptText(sections)
    /\ clipboard' = [text |-> copyPromptText(sections, promptVariables,
                                             systemPrompt, markdownEnabled)]
    /\ UNCHANGED <<systemPrompt, markdownEnabled, promptVariables,
                   coreVars, veVars, dbVars, auxVars>>

InitCopy ==
    /\ treeData = InitTree
    /\ sections \in CopySections
    /\ nextId = 3
    /\ drag = NULL
    /\ isDragging = FALSE
    /\ nodeDropped = NULL
    /\ syncPending = FALSE
    /\ last = [op |-> "init", sec |-> 0, node |-> ""]
    /\ ops = 0
    /\ VeInit /\ DbInit /\ AuxInit
    /\ systemPrompt \in CopySystemPrompts
    /\ markdownEnabled \in BOOLEAN
    /\ promptVariables \in CopyVariables
    /\ compiled = NULL
    /\ clipboard = NULL

NextCopy == CopyPrompt

SpecCopy == InitCopy /\ [][NextCopy]_vars

(***************************************************************************)
(* The persistence route: GET and POST /api/prompts over the prompts table *)
(***************************************************************************)
MaxRows == 3

\* uuidv4(): an identifier no row holds yet
Uuids == 1..MaxRows

\* an object of arbitrary keys is the set of its entries
EmptyObject == [entries |-> {}]

Bodies ==
    { [raw |-> "garbage"],
      JSONstringify(NULL),
      JSONstringify(JSString("P")),
      JSONstringify([num |-> 1]),
      JSONstringify([name |-> "", sections |-> << >>]),
      JSONstringify([name |-> "P"]),
      JSONstringify([name |-> "P",
                     sections |-> << [id |-> 1, content |-> "X"] >>,
                     variables |-> [entries |-> { << "a", "V" >> }]]),
      JSONstringify([name |-> "Q", sections |-> << >>, num |-> 1]) }

\* value || fallback, for a field that holds an array or an object when present
OrDefault(body, field, fallback) ==
    IF field \in DOMAIN body THEN body[field] ELSE fallback

\* the row POST inserts
insertedRow(body, newPromptId) ==
    [id |-> newPromptId,
     name |-> body.name,
     sections |-> JSONstringify(OrDefault(body, "sections", << >>)),
     variables |-> JSONstringify(OrDefault(body, "variables", EmptyObject)),
     num |-> OrDefault(body, "num", NULL),
     created_at |-> "now", updated_at |-> "now"]

\* a selected row with its sections and variables columns parsed
parsedRow(row) ==
    [row EXCEPT !.sections = JSONparse(row.sections).value,
                !.variables = JSONparse(row.variables).value]

\* GET: stmt.all() mapped to prompts
listPrompts(rows) == [i \in DOMAIN rows |-> parsedRow(rows[i])]

selectById(rows, id) ==
    LET found == { i \in DOMAIN rows : rows[i].id = id }
    IN  IF found = {} THEN Undefined ELSE rows[CHOOSE i \in found : TRUE]

\* POST: the table and the response it produces
routePOST(rows, requestBody, newPromptId) ==
    LET parsed == JSONparse(requestBody)
    IN  IF parsed.threw
        THEN [rows |-> rows,
              response |-> [status |-> 400,
                            error |-> "Invalid JSON format in request body"]]
        ELSE IF parsed.value = NULL
        THEN \* destructuring null throws a TypeError
             [rows |-> rows,
              response |-> [status |-> 500, error |-> "Failed to create prompt"]]
        ELSE IF ~Truthy(Get(parsed.value, "name"))
        THEN [rows |-> rows,
              response |-> [status |-> 400, error |-> "Prompt name is required"]]
        ELSE LET inserted == Append(rows, insertedRow(parsed.value, newPromptId))
                 newPrompt == selectById(inserted, newPromptId)
             IN  [rows |-> inserted,
                  response |-> [status |-> 201, body |-> parsedRow(newPrompt)]]

POST(requestBody, newPromptId) ==
    /\ Len(db) < MaxRows
    /\ \A i \in DOMAIN db : db[i].id # newPromptId
    /\ request' = [method |-> "POST", body |-> requestBody]
    /\ db' = routePOST(db, requestBody, newPromptId).rows
    /\ response' = routePOST(db, requestBody, newPromptId).response
    /\ UNCHANGED <<coreVars, veVars, copyVars, auxVars>>

GET ==
    /\ request' = [method |-> "GET"]
    /\ response' = [status |-> 200, body |-> listPrompts(db)]
    /\ UNCHANGED <<db, coreVars, veVars, copyVars, auxVars>>

NextDb ==
    \/ \E requestBody \in Bodies, newPromptId \in Uuids : POST(requestBody, newPromptId)
    \/ GET

SpecDb == Init /\ [][NextDb]_vars

(***************************************************************************)
(* The tree store on its own: deleteNode called with any id, on any of a   *)
(* family of trees.                                                        *)
(***************************************************************************)
OneOrNone(node) == { << >>, << node >> }

TreeInputs ==
    { << Folder("F1", "A", k1 \o << Folder("F3", "B", k2) >> \o k3) >> \o r :
        k1 \in OneOrNone(Component("c1", "A", "instruction", "X")),
        k2 \in OneOrNone(Component("c2", "B", "context", "Y")),
        k3 \in OneOrNone(Component("c3", "A", "instruction", "Z")),
        r \in { << >>,
                << Folder("F2", "B", << >>) >>,
                << Folder("F2", "B", << Component("c4", "B", "context", "X") >>) >> } }

\* an id no node ever had
StaleId == "zz"

DeletableIds == NodeIds \cup {"c4", StaleId}

\* TreeStore.deleteNode(id)
TreeDeleteNode(id) ==
    /\ treeData' = deleteNode(treeData, id)
    /\ last' = [op |-> "deleteNode", sec |-> 0, node |-> id]
    /\ UNCHANGED <<sections, nextId, drag, isDragging, nodeDropped, syncPending,
                   ops, veVars, copyVars, dbVars, auxVars>>

InitTreeStore ==
    /\ treeData \in TreeInputs
    /\ sections = << >>
    /\ nextId = 3
    /\ drag = NULL
    /\ isDragging = FALSE
    /\ nodeDropped = NULL
    /\ syncPending = FALSE
    /\ last = [op |-> "init", sec |-> 0, node |-> ""]
    /\ ops = 0
    /\ VeInit /\ CopyInit /\ DbInit /\ AuxInit

NextTree == \E id \in DeletableIds : TreeDeleteNode(id)

SpecTree == InitTreeStore /\ [][NextTree]_vars

(***************************************************************************)
(* The variables pane.  A mapping of names to values is a function whose   *)
(* domain is the set of its keys.                                          *)
(***************************************************************************)
MaxPaneOps == 4
MaxPaneSections == 2

PaneContents ==
    { << >>,
      << "x" >>,
      << "{", "{", "a", "}", "}" >>,
      << "{", "{", "b", "}", "}" >> }

PanePrompts ==
    UNION { [1..n -> [content : PaneContents]] : n \in 1..MaxPaneSections }

PaneValues == { "", "v", "w" }

PaneNames == { << "a" >>, << "b" >> }

StoredInputs ==
    UNION { [keys -> PaneValues \ {""}] : keys \in SUBSET {<< "a" >>} }

\* the inner forEach of extractVariablesFromSections
RECURSIVE pushNew(_, _)
pushNew(allVariables, sectionVariables) ==
    IF sectionVariables = << >> THEN allVariables
    ELSE pushNew(IF Includes(allVariables, Head(sectionVariables))
                 THEN allVariables
                 ELSE Append(allVariables, Head(sectionVariables)),
                 Tail(sectionVariables))

RECURSIVE extractVariablesFromSections(_)
extractVariablesFromSections(secs) ==
    IF secs = << >> THEN << >>
    ELSE pushNew(extractVariablesFromSections(SubSeq(secs, 1, Len(secs) - 1)),
                 extractVariables(secs[Len(secs)].content))

\* PromptStore.getPromptVariableNames
getPromptVariableNames(secs) == extractVariablesFromSections(secs)

\* currentValues[name] || ''
ValueOrEmpty(values, name) ==
    IF name \in DOMAIN values THEN values[name] ELSE ""

\* the updater without the removal of the names no longer listed
mergeVariableValues_keepStale(prevValues, names, currentValues) ==
    [name \in DOMAIN prevValues \cup Range(names) |->
        IF name \in DOMAIN prevValues THEN prevValues[name]
        ELSE ValueOrEmpty(currentValues, name)]

\* the updater passed to setVariableValues by the effect
mergeVariableValues(prevValues, names, currentValues) ==
    LET updatedValues ==
            [name \in DOMAIN prevValues \cup Range(names) |->
                IF name \in DOMAIN prevValues THEN prevValues[name]
                ELSE ValueOrEmpty(currentValues, name)]
    IN  [name \in { k \in DOMAIN updatedValues : Includes(names, k) } |->
            updatedValues[name]]

\* the useEffect of VariablesPane
PaneEffect ==
    /\ paneEffectPending
    /\ variableNames' = getPromptVariableNames(paneSections)
    /\ variableValues' = mergeVariableValues(variableValues,
                                             getPromptVariableNames(paneSections),
                                             storedVariables)
    /\ hasChanges' = FALSE
    /\ paneEffectPending' = FALSE
    /\ unsavedEdits' = unsavedEdits \cap Range(getPromptVariableNames(paneSections))
    /\ paneLast' = "effect"
    /\ UNCHANGED <<paneSections, storedVariables, paneOps,
                   coreVars, veVars, copyVars, dbVars, clipVars>>

PaneIdle == ~paneEffectPending /\ paneOps < MaxPaneOps

\* a section of the active prompt is edited, added or removed: the prompt
\* holds a new sections array
SectionsChange(secs) ==
    /\ PaneIdle
    /\ secs # paneSections
    /\ paneSections' = secs
    /\ paneEffectPending' = TRUE
    /\ paneLast' = "sections"
    /\ paneOps' = paneOps + 1
    /\ UNCHANGED <<storedVariables, variableNames, variableValues, hasChanges,
                   unsavedEdits, coreVars, veVars, copyVars, dbVars, clipVars>>

handleVariableChange(variableName, value) ==
    /\ PaneIdle
    /\ Includes(variableNames, variableName)
    /\ value # ValueOrEmpty(variableValues, variableName)
    /\ variableValues' = [name \in DOMAIN variableValues \cup {variableName} |->
                             IF name = variableName THEN value
                             ELSE variableValues[name]]
    /\ hasChanges' = TRUE
    /\ unsavedEdits' = unsavedEdits \cup {variableName}
    /\ paneLast' = "change"
    /\ paneOps' = paneOps + 1
    /\ UNCHANGED <<paneSections, storedVariables, variableNames, paneEffectPending,
                   coreVars, veVars, copyVars, dbVars, clipVars>>

\* the Save button, rendered when hasChanges
handleSaveVariables ==
    /\ PaneIdle
    /\ hasChanges
    /\ storedVariables' = variableValues
    /\ hasChanges' = FALSE
    /\ unsavedEdits' = {}
    /\ paneLast' = "save"
    /\ paneOps' = paneOps + 1
    /\ UNCHANGED <<paneSections, variableNames, variableValues, paneEffectPending,
                   coreVars, veVars, copyVars, dbVars, clipVars>>

\* the Reset button, rendered when hasChanges
handleResetVariables ==
    /\ PaneIdle
    /\ hasChanges
    /\ variableValues' = [name \in Range(variableNames) |->
                             ValueOrEmpty(storedVariables, name)]
    /\ hasChanges' = FALSE
    /\ unsavedEdits' = {}
    /\ paneLast' = "reset"
    /\ paneOps' = paneOps + 1
    /\ UNCHANGED <<paneSections, storedVariables, variableNames, paneEffectPending,
                   coreVars, veVars, copyVars, dbVars, clipVars>>

InitPane ==
    /\ CoreInit /\ VeInit /\ CopyInit /\ DbInit /\ ClipInit
    /\ paneSections \in PanePrompts
    /\ storedVariables \in StoredInputs
    /\ variableNames = << >>
    /\ variableValues = << >>
    /\ hasChanges = FALSE
    /\ paneEffectPending = TRUE
    /\ unsavedEdits = {}
    /\ paneLast = "init"
    /\ paneOps = 0

NextPane ==
    \/ PaneEffect
    \/ \E secs \in PanePrompts : SectionsChange(secs)
    \/ \E variableName \in PaneNames, value \in PaneValues :
           handleVariableChange(variableName, value)
    \/ handleSaveVariables
    \/ handleResetVariables

SpecPane == InitPane /\ [][NextPane]_vars

(***************************************************************************)
(* The clipboard hook.  A call of copyToClipboard runs up to its await in  *)
(* one step and resumes when the promise of writeText settles; every       *)
(* setTimeout is a pending timer that fires later.                         *)
(***************************************************************************)
MaxCopies == 5

ClipTexts == { "", "T" }

\* what document.execCommand('copy') gives: true, false, or an exception
ExecOutcomes == { "true", "false", "throws" }

fallbackCopy(outcome) == outcome = "true"

\* the tail of copyToClipboard: fallback, status, timer, return value
FallbackStep(outcome) ==
    /\ status' = IF fallbackCopy(outcome) THEN "success" ELSE "error"
    /\ timers' = timers + 1
    /\ returned' = [value |-> fallbackCopy(outcome),
                    setSuccess |-> fallbackCopy(outcome)]

\* copyToClipboard(text) up to its first await, or to its end
CopyToClipboard(copiedText, apiAvailable, outcome) ==
    /\ copies < MaxCopies
    /\ IF copiedText = ""
       THEN /\ status' = "error"
            /\ returned' = [value |-> FALSE, setSuccess |-> FALSE]
            /\ copies' = copies + 1
            /\ UNCHANGED <<timers, awaiting>>
       ELSE IF apiAvailable
       THEN /\ status' = "idle"
            /\ awaiting' = awaiting + 1
            /\ copies' = copies + 1
            /\ UNCHANGED <<timers, returned>>
       ELSE /\ FallbackStep(outcome)
            /\ copies' = copies + 1
            /\ UNCHANGED awaiting
    /\ UNCHANGED <<coreVars, veVars, copyVars, dbVars, paneVars>>

\* navigator.clipboard.writeText resolved
WriteTextResolves ==
    /\ awaiting > 0
    /\ awaiting' = awaiting - 1
    /\ status' = "success"
    /\ timers' = timers + 1
    /\ returned' = [value |-> TRUE, setSuccess |-> TRUE]
    /\ UNCHANGED <<copies, coreVars, veVars, copyVars, dbVars, paneVars>>

\* navigator.clipboard.writeText rejected: the catch block, then the fallback
WriteTextRejects(outcome) ==
    /\ awaiting > 0
    /\ awaiting' = awaiting - 1
    /\ FallbackStep(outcome)
    /\ UNCHANGED <<copies, coreVars, veVars, copyVars, dbVars, paneVars>>

\* setTimeout(() => setStatus('idle'), 2000)
TimerFires ==
    /\ timers > 0
    /\ timers' = timers - 1
    /\ status' = "idle"
    /\ UNCHANGED <<awaiting, returned, copies,
                   coreVars, veVars, copyVars, dbVars, paneVars>>

Settles == WriteTextResolves \/ \E outcome \in ExecOutcomes : WriteTextRejects(outcome)

NextClip ==
    \/ \E copiedText \in ClipTexts, apiAvailable \in BOOLEAN, outcome \in ExecOutcomes :
           CopyToClipboard(copiedText, apiAvailable, outcome)
    \/ WriteTextResolves
    \/ \E outcome \in ExecOutcomes : WriteTextRejects(outcome)
    \/ TimerFires

\* timers fire and promises settle
SpecClip == Init /\ [][NextClip]_vars /\ WF_vars(TimerFires) /\ WF_vars(Settles)

(***************************************************************************)
(* Properties                                                              *)
(***************************************************************************)
Linked(s) == Truthy(s.linkedComponentId)

\* the component a link names, looked up among all nodes of the tree
Resolves(tree, id) ==
    \E n \in Range(AllNodes(tree)) : n.type = "component" /\ n.id = id

Target(tree, id) ==
    CHOOSE n \in Range(AllNodes(tree)) : n.type = "component" /\ n.id = id

Diverged(c, s) ==
    \/ c.content # s.originalContent
    \/ c.componentType # s.type
    \/ c.name # s.name

InSync(c, s) ==
    /\ s.content = c.content
    /\ s.type = c.componentType
    /\ s.name = c.name
    /\ s.originalContent = c.content
    /\ s.dirty = FALSE

\* C1: LinkSync, upstream wins.  Every linked section whose component
\* resolves and differs from the section's snapshot (content against
\* originalContent, componentType against type, name against name) has,
\* after a LinkSync pass, the component's content, type and name,
\* originalContent equal to the component's content and dirty false,
\* whatever its edited content was.
C1_UpstreamWins ==
    [][LinkSync =>
        \A i \in DOMAIN sections :
            (/\ Linked(sections[i])
             /\ Resolves(treeData, sections[i].linkedComponentId)
             /\ Diverged(Target(treeData, sections[i].linkedComponentId), sections[i]))
            => InSync(Target(treeData, sections[i].linkedComponentId), sections'[i])]_vars

\* a pass has just overwritten a locally edited (dirty) section
C1_Witness ==
    /\ last.op = "linksync" /\ last.sec > 0 /\ last.node = "overDirty"
    /\ \E i \in DOMAIN sections :
          /\ Linked(sections[i])
          /\ Resolves(treeData, sections[i].linkedComponentId)
          /\ InSync(Target(treeData, sections[i].linkedComponentId), sections[i])

\* C2: LinkSync is idempotent.  After any LinkSync pass a second pass over
\* the same tree and sections changes nothing, and no linked section whose
\* component resolves still differs from it in snapshot, type or name.
C2_Idempotent ==
    [][LinkSync =>
        /\ LinkSyncPass(sections', treeData') = sections'
        /\ \A i \in DOMAIN sections' :
              (Linked(sections'[i]) /\ Resolves(treeData', sections'[i].linkedComponentId))
              => ~Diverged(Target(treeData', sections'[i].linkedComponentId), sections'[i])]_vars

\* the effect has re-run after a refresh, on a prompt that holds a section
\* created by a folder drop, and found nothing to do
C2_Witness ==
    /\ last.op = "linksync" /\ last.node = "rerun" /\ last.sec = 0
    /\ ~syncPending
    /\ \E i \in DOMAIN sections : sections[i].id >= 3 /\ Linked(sections[i])

\* C3: dirty invariant.  In every reachable state every linked section has
\* dirty = TRUE exactly when its content differs from its originalContent.
C3_DirtyInvariant ==
    \A i \in DOMAIN sections :
        Linked(sections[i]) =>
            (sections[i].dirty <=> sections[i].content # sections[i].originalContent)

\* C4: save to library.  Editing a linked, resolving, clean section to a
\* content Z other than its snapshot makes it dirty and a LinkSync pass
\* keeps Z; saveSectionToComponentLibrary on a resolving link then writes
\* the section's content, name and type into the component, sets
\* originalContent to the content and dirty to false, and the LinkSync pass
\* that follows leaves the section as it is.
C4_SaveToLibrary ==
    [][/\ \A i \in DOMAIN sections, value \in Contents :
            (/\ EditContent(i, value)
             /\ Linked(sections[i])
             /\ Resolves(treeData, sections[i].linkedComponentId)
             /\ ~Diverged(Target(treeData, sections[i].linkedComponentId), sections[i])
             /\ value # sections[i].originalContent)
            => /\ sections'[i].dirty
               /\ sections'[i].content = value
               /\ treeData' = treeData
               /\ LinkSyncPass(sections', treeData')[i] = sections'[i]
       /\ \A i \in DOMAIN sections :
            (/\ SaveToLibrary(i)
             /\ Resolves(treeData, sections[i].linkedComponentId))
            => LET c == Target(treeData', sections[i].linkedComponentId)
               IN  /\ c.content = sections[i].content
                   /\ c.name = sections[i].name
                   /\ c.componentType = sections[i].type
                   /\ sections'[i] = [sections[i] EXCEPT
                                        !.originalContent = sections[i].content,
                                        !.dirty = FALSE]
                   /\ LinkSyncPass(sections', treeData')[i] = sections'[i]]_vars

\* an edit to "Z" has just been saved into component c1
C4_Witness ==
    /\ last.op = "save"
    /\ sections[last.sec].linkedComponentId = "c1"
    /\ sections[last.sec].content = "Z"
    /\ sections[last.sec].originalContent = "Z"
    /\ ~sections[last.sec].dirty
    /\ Resolves(treeData, "c1") /\ Target(treeData, "c1").content = "Z"

\* C5: save to library with a dangling link.  When the section's
\* linkedComponentId names no component of the tree,
\* saveSectionToComponentLibrary leaves the tree (no component created) and
\* every section unchanged.
C5_SaveDangling ==
    [][\A i \in DOMAIN sections :
          (SaveToLibrary(i) /\ ~Resolves(treeData, sections[i].linkedComponentId))
          => (treeData' = treeData /\ sections' = sections /\ nextId' = nextId)]_vars

\* save has just been pressed on a dirty section whose component is gone
C5_Witness ==
    /\ last.op = "save"
    /\ Linked(sections[last.sec])
    /\ sections[last.sec].dirty
    /\ ~Resolves(treeData, sections[last.sec].linkedComponentId)

\* C6: dangling links are preserved.  A LinkSync pass changes no field of a
\* section whose linkedComponentId names no component of the tree, and
\* deleting a node of the tree deletes and changes no section.
C6_DanglingPreserved ==
    [][/\ LinkSync =>
            /\ Len(sections') = Len(sections)
            /\ \A i \in DOMAIN sections :
                  (Linked(sections[i]) /\ ~Resolves(treeData, sections[i].linkedComponentId))
                  => sections'[i] = sections[i]
       /\ \A id \in NodeIds : DeleteNode(id) => sections' = sections]_vars

\* a pass has run over a section whose component was deleted
C6_Witness ==
    /\ last.op = "linksync"
    /\ \E i \in DOMAIN sections :
          /\ Linked(sections[i])
          /\ ~Resolves(treeData, sections[i].linkedComponentId)

\* C7: component drop onto a section.  The section takes the payload's
\* content, componentType and name, is linked to the payload's id with
\* originalContent the dropped content, and dirty is false, even when the
\* section was linked and dirty before the drop.
C7_ComponentDrop ==
    [][\A i \in DOMAIN sections :
          (/\ DropOnSection(i)
           /\ Get(drag.data, "type") = "component"
           /\ Truthy(Get(drag.data, "componentType")))
          => sections' = [sections EXCEPT
                            ![i].content = drag.data.content,
                            ![i].type = drag.data.componentType,
                            ![i].name = drag.data.name,
                            ![i].linkedComponentId = drag.data.id,
                            ![i].originalContent = drag.data.content,
                            ![i].dirty = FALSE]]_vars

\* C8: folder drop fan-out.  Dropping a folder payload with components
\* c1..cn (n >= 1) onto the section at position i leaves the sections
\* before it unchanged, that section holding c1, new sections linked to
\* c2..cn at the next n-1 positions in that order, and the sections that
\* followed it after the new ones in their previous order.
HoldsComponent(s, c) ==
    /\ s.content = c.content
    /\ s.type = c.componentType
    /\ s.name = c.name
    /\ s.linkedComponentId = c.id
    /\ s.originalContent = c.content

C8_FolderFanOut ==
    [][\A i \in DOMAIN sections :
          (/\ DropOnSection(i)
           /\ Get(drag.data, "dragType") = "folder"
           /\ Len(drag.data.components) >= 1)
          => LET cs == drag.data.components
                 n == Len(cs)
             IN  /\ Len(sections') = Len(sections) + n - 1
                 /\ \A k \in 1..(i - 1) : sections'[k] = sections[k]
                 /\ sections'[i].id = sections[i].id
                 /\ \A j \in 1..n : HoldsComponent(sections'[i + j - 1], cs[j])
                 /\ \A j \in 2..n :
                       \A k \in DOMAIN sections : sections'[i + j - 1].id # sections[k].id
                 /\ \A k \in (i + 1)..Len(sections) :
                       sections'[k + n - 1] = sections[k]]_vars

\* folder F1 (c1, c2, c3 in traversal order) has just been dropped on the
\* first of two sections
C8_Witness ==
    /\ last.op = "dropOnSection" /\ last.sec = 1
    /\ Len(sections) = 4
    /\ sections[1].id = 1 /\ sections[1].linkedComponentId = "c1"
    /\ sections[2].linkedComponentId = "c2"
    /\ sections[3].linkedComponentId = "c3"
    /\ sections[4].id = 2

\* C9: an empty folder drag is refused.  Starting a drag on a folder with
\* no component anywhere beneath it sets no payload, does not set the
\* is-dragging flag and changes no section; with no payload on the
\* transfer no drop takes place.
HasComponentBeneath(node) ==
    \E n \in Range(AllNodes(node.children)) : n.type = "component"

C9_EmptyFolderRefused ==
    [][/\ \A node \in Range(AllNodes(treeData)) :
            (/\ TreeDragStart(node)
             /\ node.type = "folder"
             /\ ~HasComponentBeneath(node))
            => /\ drag' = NULL
               /\ isDragging' = FALSE
               /\ sections' = sections
       /\ (\E i \in DOMAIN sections : DropOnSection(i)) => drag # NULL]_vars

\* a drag has just been started on a folder without components
C9_Witness ==
    /\ last.op = "treeDragStart"
    /\ \E node \in Range(AllNodes(treeData)) :
          /\ node.id = last.node
          /\ node.type = "folder"
          /\ ~HasComponentBeneath(node)
    /\ drag = NULL
    /\ ~isDragging

\* C10: self-drop is a no-op.  Dropping a dragged tree node onto itself
\* emits no node-dropped signal and changes neither the tree nor the
\* sections; every signal emitted carries as draggedNodeId the id of the
\* dragged node, which differs from targetNodeId.
C10_SelfDropNoOp ==
    [][\A node \in Range(AllNodes(treeData)) :
          (DropOnTreeNode(node) /\ drag.source \in NodeIds)
          => /\ treeData' = treeData /\ sections' = sections
             /\ drag.source = node.id => nodeDropped' = NULL
             /\ nodeDropped' # NULL =>
                   /\ nodeDropped'.draggedNodeId = JSString(drag.source)
                   /\ nodeDropped'.targetNodeId # drag.source]_vars

\* C11: malformed transfer on a section drop.  When the transfer is empty,
\* not parseable, or parses to a value without the required fields (a
\* component payload or the components of a folder payload lacking id,
\* content or componentType), the drop changes no section.
HasFields(c) ==
    /\ c # NULL
    /\ Truthy(Get(c, "id"))
    /\ Get(c, "content") # Undefined
    /\ Truthy(Get(c, "componentType"))

WellFormed(data) ==
    /\ data.raw = "json"
    /\ data.value # NULL
    /\ \/ /\ Get(data.value, "type") = "component"
          /\ HasFields(data.value)
       \/ /\ Get(data.value, "dragType") = "folder"
          /\ Get(data.value, "components") # Undefined
          /\ \A k \in DOMAIN data.value.components :
                HasFields(data.value.components[k])

C11_MalformedNoMutation ==
    [][\A i \in DOMAIN sections, data \in Transfers :
          (ExternalDrop(i, data) /\ ~WellFormed(data))
          => (sections' = sections /\ nextId' = nextId)]_vars

\* C12: drag flag pairing.  The is-dragging flag is set only while a
\* transfer with a payload is in progress, only a drag start sets it, and
\* every drag end (after a drop or without one) leaves it cleared.
C12_FlagPairing ==
    [][/\ isDragging' => drag' # NULL
       /\ (isDragging' /\ ~isDragging)
            => last'.op \in {"treeDragStart", "sectionDragStart"}
       /\ DragEnd => (~isDragging' /\ drag' = NULL)]_vars

\* a drag has ended without a drop and the flag is cleared
C12_Witness ==
    /\ last.op = "dragEnd" /\ last.node = "cancelled"
    /\ ~isDragging
    /\ drag = NULL

(***************************************************************************)
(* Variable engine properties                                              *)
(***************************************************************************)
\* "{{" at i, then the characters i+2..j none of which is "}", then "}}"
IsOccurrence(t, i, j) ==
    /\ i >= 1 /\ j >= i + 2 /\ j + 2 <= Len(t)
    /\ t[i] = "{" /\ t[i + 1] = "{"
    /\ \A k \in (i + 2)..j : t[k] # "}"
    /\ t[j + 1] = "}" /\ t[j + 2] = "}"

OccursAt(t, i) == \E j \in 1..Len(t) : IsOccurrence(t, i, j)

NameEnd(t, i) == CHOOSE j \in 1..Len(t) : IsOccurrence(t, i, j)

\* the occurrences a left-to-right scan takes: those that do not start
\* inside an occurrence taken before them
Scanned(t) ==
    LET taken[i \in 0..Len(t)] ==
            IF i = 0 THEN {}
            ELSE IF OccursAt(t, i)
                    /\ \A h \in taken[i - 1] : i > NameEnd(t, h) + 2
                 THEN taken[i - 1] \cup {i}
                 ELSE taken[i - 1]
    IN  taken[Len(t)]

Stripped(w) ==
    LET solid == { k \in DOMAIN w : ~IsWhitespace(w[k]) }
    IN  IF solid = {} THEN << >>
        ELSE SubSeq(w, CHOOSE k \in solid : \A h \in solid : k <= h,
                       CHOOSE k \in solid : \A h \in solid : k >= h)

NameAt(t, i) == Stripped(SubSeq(t, i + 2, NameEnd(t, i)))

FirstAt(t, name) ==
    CHOOSE i \in Scanned(t) :
        /\ NameAt(t, i) = name
        /\ \A h \in Scanned(t) : NameAt(t, h) = name => i <= h

\* C13: extractVariables returns the names of the "{{" non-"}" run "}}"
\* occurrences scanned left to right, trimmed, without the empty ones and
\* without duplicates, in the order of their first occurrence; a lone "{{"
\* yields nothing.
C13_ExtractVariables ==
    vePc = "extracted" =>
        /\ { extracted[k] : k \in DOMAIN extracted }
               = { NameAt(text, i) : i \in Scanned(text) } \ { << >> }
        /\ \A k, l \in DOMAIN extracted :
               k < l => FirstAt(text, extracted[k]) < FirstAt(text, extracted[l])
        /\ text = << "{", "{" >> => extracted = << >>

C13_Witness ==
    /\ vePc = "extracted"
    /\ text = << "{", "{", " ", "a", " ", "}", "}",
                 "{", "{", "b", "}", "}",
                 "{", "{", "a", "}", "}" >>
    /\ extracted = << << "a" >>, << "b" >> >>

\* every occurrence of the literal "{{" name "}}" replaced in one scan of
\* the text; what a replacement inserts is not looked at again
KeyAt(t, p, variables) ==
    { k \in DOMAIN variables :
        /\ p + Len(variables[k].name) + 3 <= Len(t)
        /\ SubSeq(t, p, p + Len(variables[k].name) + 3)
              = << "{", "{" >> \o variables[k].name \o << "}", "}" >> }

RECURSIVE LiteralReplace(_, _, _)
LiteralReplace(t, p, variables) ==
    IF p > Len(t) THEN << >>
    ELSE IF KeyAt(t, p, variables) # {}
    THEN LET k == CHOOSE k \in KeyAt(t, p, variables) : TRUE
         IN  variables[k].value
             \o LiteralReplace(t, p + Len(variables[k].name) + 4, variables)
    ELSE << t[p] >> \o LiteralReplace(t, p + 1, variables)

PlainNames(variables) ==
    \A k \in DOMAIN variables : \A h \in DOMAIN variables[k].name :
        variables[k].name[h] # "."

HasPlaceholderOfKey(variables) ==
    \E k, l \in DOMAIN variables :
        /\ k # l
        /\ KeyAt(variables[k].value, 1, variables) = {l}

Reverse(seq) == [k \in DOMAIN seq |-> seq[Len(seq) + 1 - k]]

\* C14: with a mapping of one entry, whatever characters its name holds,
\* replaceVariables replaces every literal occurrence of "{{name}}" by the
\* value (nothing when the value is empty) and changes no other character,
\* so a placeholder of another name is left as it was.
C14_LiteralOccurrences ==
    (vePc = "replaced" /\ Len(mapping) = 1) =>
        replaced = LiteralReplace(text, 1, mapping)

\* C15: when a value holds the placeholder of another key, the inserted
\* placeholder is not replaced again, in whatever order the entries come.
C15_SinglePass ==
    (vePc = "replaced" /\ PlainNames(mapping) /\ HasPlaceholderOfKey(mapping)) =>
        replaced = LiteralReplace(text, 1, mapping)

\* C16: the same entries in another order give the same result.
C16_OrderIndependent ==
    (vePc = "replaced" /\ PlainNames(mapping)) =>
        replaced = replaceVariables(text, Reverse(mapping))

(***************************************************************************)
(* Action bar properties                                                   *)
(***************************************************************************)
HasSolid(content) == \E k \in DOMAIN content : ~IsWhitespace(content[k])

KeptContents(secs) ==
    SelectSeq([i \in DOMAIN secs |-> secs[i].content], HasSolid)

\* where the k-th kept content starts in the compiled text, less one
Offset(kept) ==
    LET off[k \in 1..(Len(kept) + 1)] ==
            IF k = 1 THEN 0 ELSE off[k - 1] + Len(kept[k - 1]) + 2
    IN  off

\* C17: the compiled text is the contents with a non-blank character, in
\* section order, with exactly two newlines between consecutive ones and
\* nothing before the first or after the last; ["", "  ", "Body"] compiles
\* to "Body".
C17_CompiledText ==
    compiled # NULL =>
        LET kept == KeptContents(sections)
            off == Offset(kept)
            n == Len(kept)
        IN  /\ Len(compiled) = IF n = 0 THEN 0 ELSE off[n] + Len(kept[n])
            /\ \A k \in 1..n :
                   SubSeq(compiled, off[k] + 1, off[k] + Len(kept[k])) = kept[k]
            /\ \A k \in 1..(n - 1) :
                   /\ compiled[off[k + 1] - 1] = "\n"
                   /\ compiled[off[k + 1]] = "\n"
            /\ ([i \in DOMAIN sections |-> sections[i].content]
                    = << << >>, << " ", " " >>, << "B", "o", "d", "y" >> >>
                 => compiled = << "B", "o", "d", "y" >>)

C17_Witness ==
    /\ compiled # NULL
    /\ compiled = << "B", "o", "d", "y" >>
    /\ [i \in DOMAIN sections |-> sections[i].content]
          = << << >>, << " ", " " >>, << "B", "o", "d", "y" >> >>

\* C18: with markdown mode on and a non-empty system prompt the clipboard
\* receives the system prompt, two newline characters and the substituted
\* compiled text; otherwise the substituted compiled text alone.
C18_MarkdownExport ==
    clipboard # NULL =>
        LET substituted == replaceVariables(compiled, promptVariables)
        IN  clipboard.text =
                IF markdownEnabled /\ systemPrompt # << >>
                THEN systemPrompt \o << "\n", "\n" >> \o substituted
                ELSE substituted

(***************************************************************************)
(* Persistence properties                                                  *)
(***************************************************************************)
\* the request body is not parseable, or what it parses to holds no
\* non-empty name
InvalidDraft(requestBody) ==
    \/ requestBody.raw # "json"
    \/ "name" \notin DOMAIN requestBody.value
    \/ requestBody.value.name = ""

\* C19: a create whose name is missing or empty, or whose body is not
\* parseable, answers 400 with a message and leaves the list of prompts as
\* it was; a create with a non-empty name answers 201 with an id no prompt
\* had, the draft's sections and variables (empty sequence and empty mapping
\* when omitted), and the prompt is in the following list.
C19_CreateContract ==
    [][Get(request', "method") = "POST" =>
        IF InvalidDraft(request'.body)
        THEN /\ response'.status = 400
             /\ response'.error # ""
             /\ listPrompts(db') = listPrompts(db)
        ELSE LET draft == request'.body.value
             IN  /\ response'.status = 201
                 /\ \A i \in DOMAIN db : db[i].id # response'.body.id
                 /\ response'.body.name = draft.name
                 /\ response'.body.sections = OrDefault(draft, "sections", << >>)
                 /\ response'.body.variables = OrDefault(draft, "variables", EmptyObject)
                 /\ \E i \in DOMAIN db' : listPrompts(db')[i] = response'.body
                 /\ Len(listPrompts(db')) = Len(db) + 1
    ]_vars

(***************************************************************************)
(* Tree store properties                                                   *)
(***************************************************************************)
IdsOf(tree) == { n.id : n \in Range(AllNodes(tree)) }

DescendantIds(node) ==
    IF node.type = "folder" THEN IdsOf(node.children) ELSE {}

\* every id is held by one node only: no node has two parents
UniqueIds(tree) ==
    \A i, j \in DOMAIN AllNodes(tree) :
        AllNodes(tree)[i].id = AllNodes(tree)[j].id => i = j

\* every child a folder lists is the node the tree resolves its id to
NoDanglingChild(tree) ==
    \A n \in Range(AllNodes(tree)) :
        n.type = "folder" =>
            \A k \in DOMAIN n.children :
                findNodeById(tree, n.children[k].id) = n.children[k]

\* C20: after deleteNode on a node, neither it nor any of its descendants
\* resolves, the number of nodes went down by one plus the number of
\* descendants, the other nodes are all still there, no id has two parents
\* and no child dangles; deleteNode on an id the tree does not hold changes
\* nothing.
C20_RecursiveDelete ==
    [][last'.op = "deleteNode" =>
        LET id == last'.node
            target == findNodeById(treeData, id)
        IN  IF target = NULL THEN treeData' = treeData
            ELSE LET gone == {id} \cup DescendantIds(target)
                 IN  /\ \A g \in gone : findNodeById(treeData', g) = NULL
                     /\ Len(AllNodes(treeData'))
                           = Len(AllNodes(treeData)) - (1 + Cardinality(DescendantIds(target)))
                     /\ IdsOf(treeData') = IdsOf(treeData) \ gone
                     /\ UniqueIds(treeData')
                     /\ NoDanglingChild(treeData')
    ]_vars

C20_Witness ==
    /\ last.op = "deleteNode"
    /\ last.node = "F1"
    /\ IdsOf(treeData) = {"F2", "c4"}

(***************************************************************************)
(* Frame of the content edit                                               *)
(***************************************************************************)
SectionById(secs, id) == secs[CHOOSE i \in DOMAIN secs : secs[i].id = id]

SectionIds(secs) == { secs[i].id : i \in DOMAIN secs }

\* C21: a content edit leaves the edited section's originalContent,
\* linkedComponentId, type and name, every other section and the tree as
\* they were; the originalContent of a section changes only in a LinkSync
\* refresh, a save to the library or a drop on a section.
C21_EditFrame ==
    [][/\ (last'.op = "edit" /\ ops' = ops + 1) =>
            /\ treeData' = treeData
            /\ Len(sections') = Len(sections)
            /\ \A i \in DOMAIN sections :
                   IF i = last'.sec
                   THEN /\ sections'[i].originalContent = sections[i].originalContent
                        /\ sections'[i].linkedComponentId = sections[i].linkedComponentId
                        /\ sections'[i].type = sections[i].type
                        /\ sections'[i].name = sections[i].name
                        /\ sections'[i].content # sections[i].content
                   ELSE sections'[i] = sections[i]
       /\ \A id \in SectionIds(sections) \cap SectionIds(sections') :
              SectionById(sections', id).originalContent
                    # SectionById(sections, id).originalContent
                => last'.op \in {"linksync", "save", "dropOnSection"}
    ]_vars

C21_Witness ==
    /\ last.op = "edit"
    /\ sections[last.sec].linkedComponentId = "c1"
    /\ sections[last.sec].content # sections[last.sec].originalContent

(***************************************************************************)
(* Variables pane properties                                               *)
(***************************************************************************)
CurrentNames == Range(getPromptVariableNames(paneSections))

\* C22: once the effect has run on changed sections the value map has
\* exactly the current variable names as keys, the value of a retained name
\* is the local one and the value of a new name is the stored one or the
\* empty string; a save makes the stored map that very map.
C22_ValuesFollowNames ==
    [][/\ (paneEffectPending /\ ~paneEffectPending') =>
            /\ DOMAIN variableValues' = CurrentNames
            /\ \A name \in CurrentNames :
                   variableValues'[name] =
                       IF name \in DOMAIN variableValues THEN variableValues[name]
                       ELSE IF name \in DOMAIN storedVariables
                            THEN storedVariables[name] ELSE ""
       /\ (~paneEffectPending' => DOMAIN variableValues' = Range(variableNames'))
       /\ (paneLast' = "save" /\ paneOps' = paneOps + 1) =>
            storedVariables' = variableValues
    ]_vars

C22_Witness ==
    /\ paneLast = "effect"
    /\ paneSections = << [content |-> << "{", "{", "b", "}", "}" >>] >>
    /\ << "a" >> \in DOMAIN storedVariables
    /\ DOMAIN variableValues = { << "b" >> }
    /\ paneOps >= 1

\* C26: whenever a current variable edited since the last save or reset
\* holds a local value other than the stored one, hasChanges is true.
C26_UnsavedStaysSavable ==
    \A name \in unsavedEdits \cap Range(variableNames) :
        ValueOrEmpty(variableValues, name) # ValueOrEmpty(storedVariables, name)
            => hasChanges

(***************************************************************************)
(* Local edits against an unchanged library                                *)
(***************************************************************************)
\* C23: while the tree is not modified, no LinkSync pass that follows
\* content edits, renames, type changes and toggles of a section changes
\* the content of a section.
C23_LocalEditsSurvive ==
    [][(LinkSync /\ treeData = InitTree) =>
        \A i \in DOMAIN sections :
            sections'[i].content = sections[i].content]_vars

(***************************************************************************)
(* Listing and substitution together                                       *)
(***************************************************************************)
PlainValues(variables) ==
    \A k \in DOMAIN variables : \A h \in DOMAIN variables[k].value :
        variables[k].value[h] \notin {"{", "}"}

\* C24: a name that extractVariables lists for the text and that the
\* mapping gives a value is not listed for the result of replaceVariables:
\* no placeholder with that trimmed name is left.
C24_ListedIsSubstituted ==
    (vePc = "replaced" /\ PlainNames(mapping) /\ PlainValues(mapping)) =>
        \A k \in DOMAIN mapping :
            Includes(extractVariables(text), mapping[k].name)
                => ~Includes(extractVariables(replaced), mapping[k].name)

(***************************************************************************)
(* Clipboard hook properties                                               *)
(***************************************************************************)
\* C25: once no further copy is attempted the status becomes 'idle' and
\* stays so, whatever the calls were; and a call returns true exactly when
\* it set the status to 'success'.
C25_ReturnsToIdle ==
    /\ <>[](status = "idle")
    /\ [](returned # NULL => returned.value = returned.setSuccess)
====
